---- MODULE Spec2Model ----
(***************************************************************************)
(* The POST /review pipeline of src/src/server.js (the Ollama variant with *)
(* a request deadline): the multer upload filter, the async handler with   *)
(* its await points, the deadline timer, the catch block's status mapping, *)
(* and the uploads/ directory shared by all requests.                      *)
(*                                                                         *)
(* Text is kept run-length encoded: a text is a sequence of runs <<c, n>>  *)
(* (character c repeated n >= 1 times, adjacent runs of different          *)
(* characters), so that files of 5000, 10000 or 2 MiB characters are small *)
(* values.  Length, Substring, Trim and Concat are computed on the runs.   *)
(***************************************************************************)
EXTENDS Integers, Sequences, FiniteSets, TLC

\* ------------------------------------------------------------------ bounds
NReq == 2
MaxClock == 1

\* ------------------------------------------------------- program constants
TRUNCATE_AT == 5000
MAX_CONTENT == 10000
FILE_SIZE_LIMIT == 2 * 1024 * 1024

Requests == 1..NReq

\* -------------------------------------------------------------------- text
RECURSIVE Length(_)
Length(s) == IF s = <<>> THEN 0 ELSE s[1][2] + Length(Tail(s))

\* a ++ b, keeping the runs normalised
Concat(a, b) ==
  IF a = <<>> THEN b
  ELSE IF b = <<>> THEN a
  ELSE IF a[Len(a)][1] = b[1][1]
       THEN SubSeq(a, 1, Len(a) - 1)
            \o << <<b[1][1], a[Len(a)][2] + b[1][2]>> >>
            \o Tail(b)
       ELSE a \o b

RECURSIVE FromChars(_)
FromChars(cs) ==
  IF cs = <<>> THEN <<>> ELSE Concat(<< <<cs[1], 1>> >>, FromChars(Tail(cs)))

\* the first n characters of s (all of s when it is shorter)
RECURSIVE Take(_, _)
Take(s, n) ==
  IF n <= 0 \/ s = <<>> THEN <<>>
  ELSE IF s[1][2] >= n THEN << <<s[1][1], n>> >>
  ELSE <<s[1]>> \o Take(Tail(s), n - s[1][2])

\* s without its first n characters
RECURSIVE Drop(_, _)
Drop(s, n) ==
  IF n <= 0 \/ s = <<>> THEN s
  ELSE IF s[1][2] > n THEN << <<s[1][1], s[1][2] - n>> >> \o Tail(s)
  ELSE Drop(Tail(s), n - s[1][2])

\* String.prototype.substring(from, to) for 0 <= from <= to
Substring(s, from, to) == Take(Drop(s, from), to - from)

WhiteSpace == {" ", "\n", "\t", "\r"}

RECURSIVE TrimStart(_)
TrimStart(s) ==
  IF s # <<>> /\ s[1][1] \in WhiteSpace THEN TrimStart(Tail(s)) ELSE s

RECURSIVE TrimEnd(_)
TrimEnd(s) ==
  IF s # <<>> /\ s[Len(s)][1] \in WhiteSpace
  THEN TrimEnd(SubSeq(s, 1, Len(s) - 1)) ELSE s

\* String.prototype.trim()
Trim(s) == TrimEnd(TrimStart(s))

Repeat(c, n) == IF n = 0 THEN <<>> ELSE << <<c, n>> >>

\* ------------------------------------------------------------- file names
\* A file name is a sequence of one-character strings.
UpperCase == <<"A","B","C","D","E","F","G","H","I","J","K","L","M",
               "N","O","P","Q","R","S","T","U","V","W","X","Y","Z">>
LowerCase == <<"a","b","c","d","e","f","g","h","i","j","k","l","m",
               "n","o","p","q","r","s","t","u","v","w","x","y","z">>
Digits == {"0","1","2","3","4","5","6","7","8","9"}

ToLower(c) ==
  IF \E i \in 1..26 : UpperCase[i] = c
  THEN LowerCase[CHOOSE i \in 1..26 : UpperCase[i] = c]
  ELSE c

EndsWith(name, suffix) ==
  /\ Len(name) >= Len(suffix)
  /\ SubSeq(name, Len(name) - Len(suffix) + 1, Len(name)) = suffix

\* the alternatives of /\.(js|ts|py|java|cpp|c|go|rs|php|rb|jsx|tsx|html|css|json|yaml|yml)$/i
AllowedExtensions ==
  { <<"j","s">>, <<"t","s">>, <<"p","y">>, <<"j","a","v","a">>,
    <<"c","p","p">>, <<"c">>, <<"g","o">>, <<"r","s">>, <<"p","h","p">>,
    <<"r","b">>, <<"j","s","x">>, <<"t","s","x">>, <<"h","t","m","l">>,
    <<"c","s","s">>, <<"j","s","o","n">>, <<"y","a","m","l">>,
    <<"y","m","l">> }

\* allowedTypes.test(file.originalname)
AllowedType(name) ==
  LET lower == SubSeq([i \in 1..Len(name) |-> ToLower(name[i])],
                      1, Len(name))
  IN \E ext \in AllowedExtensions : EndsWith(lower, <<".">> \o ext)

\* path.basename(name): what follows the last "/"
RECURSIVE Basename(_)
Basename(name) ==
  IF \E i \in 1..Len(name) : name[i] = "/"
  THEN Basename(Tail(name))
  ELSE name

KeptChars ==
  {UpperCase[i] : i \in 1..26} \cup {LowerCase[i] : i \in 1..26}
    \cup Digits \cup {".", "-"}

\* path.basename(originalname).replace(/[^a-zA-Z0-9.-]/g, '_')
SanitizedFilename(name) ==
  [i \in 1..Len(Basename(name)) |->
     IF Basename(name)[i] \in KeptChars THEN Basename(name)[i] ELSE "_"]

\* ------------------------------------------------------------------ inputs
NameSpace == <<"a"," ","b",".","j","s">>
NameUnder == <<"a","_","b",".","j","s">>
NameUpper == <<"m",".","P","Y">>
NameExe   == <<"n",".","e","x","e">>

Short      == FromChars(<<"x","=","1">>)
Blank      == FromChars(<<" ","\n">>)
AtLimit    == Concat(Repeat("a", TRUNCATE_AT - 1), Repeat("b", 1))
OverLimit  == Concat(AtLimit, Repeat("c", 1))
AtMax      == Concat(AtLimit, Repeat("c", MAX_CONTENT - TRUNCATE_AT))
OverMax    == Concat(AtMax, Repeat("d", 1))
OverUpload == Concat(AtMax, Repeat("d", FILE_SIZE_LIMIT + 1 - MAX_CONTENT))

File(name, content) ==
  [hasFile |-> TRUE, originalname |-> name, content |-> content]

\* the multipart requests a client may send
UploadList ==
  << [hasFile |-> FALSE, originalname |-> <<>>, content |-> <<>>],
     File(NameExe, Short),
     File(NameSpace, <<>>), File(NameUpper, Blank),
     File(NameSpace, AtLimit), File(NameUnder, OverLimit),
     File(NameUpper, AtMax),
     File(NameSpace, OverMax), File(NameUpper, OverUpload) >>
Uploads == {UploadList[i] : i \in 1..Len(UploadList)}
UploadIndex(u) == CHOOSE i \in 1..Len(UploadList) : UploadList[i] = u

\* what the inference backend may answer
BackendStatuses == {200, 500}
StatusText(s) == CASE s = 200 -> "200" [] s = 500 -> "500"
FilterPhrase == "Only code files are allowed"
ErrorBodies == {"model not found", FilterPhrase}
\* the parsed JSON body: the `response` field present or not, empty or not
JsonBodies ==
  { [hasResponse |-> TRUE, response |-> "LGTM"],
    [hasResponse |-> TRUE, response |-> ""],
    [hasResponse |-> FALSE, response |-> ""] }

\* ------------------------------------------------------------------- state
VARIABLES
  req,        \* r -> the multipart request (an element of Uploads)
  pc,         \* r -> where the request is in the pipeline
  filePath,   \* r -> `filePath` of the handler (NoTemp while null)
  timer,      \* r -> the deadline timer: "unset", "armed", "cleared", "fired"
  abortedAt,  \* r -> where the handler was when controller.abort() ran
              \*      ("" while it has not run)
  prompt,     \* r -> the prompts sent to the backend, in order
  reply,      \* r -> status of the backend reply whose headers arrived (0: none)
  data,       \* r -> `data`, the parsed body of a 2xx reply
  error,      \* r -> the error caught by the handler
  mdPath,     \* r -> `mdPath` of the handler
  tmpFiles,   \* temporary uploads present in uploads/
  artifacts,  \* Markdown artifacts present in uploads/
  wrote,      \* r -> fs.writeFile has completed for the request
  cleanups,   \* r -> number of cleanupFile calls made for the request
  res,        \* r -> the HTTP response sent (NoResponse while none)
  now         \* the latest value Date.now() returned (milliseconds)

vars == <<req, pc, filePath, timer, abortedAt, prompt, reply, data, error,
          mdPath, tmpFiles, artifacts, wrote, cleanups, res, now>>

NoTemp == [dir |-> "", id |-> 0]
TempPath(r) == [dir |-> "uploads", id |-> r]
NoPath == [dir |-> "", timestamp |-> 0, name |-> <<>>]
NoError == [name |-> "", message |-> <<>>]
NoData == [hasResponse |-> FALSE, response |-> "(no body parsed)"]
NoResponse ==
  [status |-> 0, json |-> FALSE, error |-> <<>>, details |-> <<>>,
   suggestion |-> FALSE, reviewFile |-> NoPath, truncated |-> FALSE]

\* Requests are interchangeable, so only the assignments of uploads to
\* requests that follow the order of UploadList are started from: every
\* other run is one of these with the requests renamed.
Init ==
  /\ req \in [Requests -> Uploads]
  /\ \A r1, r2 \in Requests :
       r1 < r2 => UploadIndex(req[r1]) <= UploadIndex(req[r2])
  /\ pc = [r \in Requests |-> "upload"]
  /\ filePath = [r \in Requests |-> NoTemp]
  /\ timer = [r \in Requests |-> "unset"]
  /\ abortedAt = [r \in Requests |-> ""]
  /\ prompt = [r \in Requests |-> <<>>]
  /\ reply = [r \in Requests |-> 0]
  /\ data = [r \in Requests |-> NoData]
  /\ error = [r \in Requests |-> NoError]
  /\ mdPath = [r \in Requests |-> NoPath]
  /\ tmpFiles = {}
  /\ artifacts = {}
  /\ wrote = [r \in Requests |-> FALSE]
  /\ cleanups = [r \in Requests |-> 0]
  /\ res = [r \in Requests |-> NoResponse]
  /\ now = 0

\* ------------------------------------------------------------ the handler
Response(status, err, details, suggestion) ==
  [status |-> status, json |-> TRUE, error |-> err, details |-> details,
   suggestion |-> suggestion, reviewFile |-> NoPath, truncated |-> FALSE]

\* Express's default error handler: an error without a status is answered
\* with 500 and an HTML page
DefaultErrorResponse ==
  [status |-> 500, json |-> FALSE, error |-> <<>>, details |-> <<>>,
   suggestion |-> FALSE, reviewFile |-> NoPath, truncated |-> FALSE]

\* error.message.includes(phrase), the message being a sequence of parts
MessageIncludes(message, phrase) ==
  \E i \in 1..Len(message) : message[i] = phrase

\* a catch block without the AbortError branch
ErrorResponse_NoAbortBranch(err) ==
  IF MessageIncludes(err.message, FilterPhrase)
  THEN Response(400, err.message, <<>>, FALSE)
  ELSE Response(500, <<"Failed to generate review">>, err.message, FALSE)

\* the catch block's status mapping
ErrorResponse(err) ==
  IF MessageIncludes(err.message, FilterPhrase)
  THEN Response(400, err.message, <<>>, FALSE)
  ELSE IF err.name = "AbortError"
  THEN Response(408, <<"Request timeout - Model took longer than ",
                       "REQUEST_TIMEOUT/1000", " seconds">>, <<>>, TRUE)
  ELSE Response(500, <<"Failed to generate review">>, err.message, FALSE)

\* the success response
SuccessResponse(r) ==
  [status |-> 200, json |-> TRUE, error |-> <<>>, details |-> <<>>,
   suggestion |-> FALSE, reviewFile |-> mdPath[r],
   truncated |-> Length(req[r].content) > TRUNCATE_AT]

TruncationMarker ==
  FromChars(<<"\n","\n","/","/"," ",".",".","."," ","(","f","i","l","e"," ",
              "t","r","u","n","c","a","t","e","d"," ","f","o","r"," ",
              "r","e","v","i","e","w",")">>)

\* a truncation that cuts one character early
TruncatedContent_OffByOne(fileContent) ==
  IF Length(fileContent) > TRUNCATE_AT
  THEN Concat(Substring(fileContent, 0, TRUNCATE_AT - 1), TruncationMarker)
  ELSE fileContent

TruncatedContent(fileContent) ==
  IF Length(fileContent) > TRUNCATE_AT
  THEN Concat(Substring(fileContent, 0, TRUNCATE_AT), TruncationMarker)
  ELSE fileContent

\* the prompt template with its two holes filled
OptimizedPrompt(name, code) == [file |-> name, code |-> code]

\* a catch block that answers without calling cleanupFile
Throw_SkipCleanup(r, err) ==
  /\ error' = [error EXCEPT ![r] = err]
  /\ pc' = [pc EXCEPT ![r] = "done"]
  /\ cleanups' = cleanups
  /\ res' = [res EXCEPT ![r] = ErrorResponse(err)]

\* an error is thrown inside the try block: the catch block starts, and
\* awaits cleanupFile when filePath is set, else answers at once
Throw(r, err) ==
  /\ error' = [error EXCEPT ![r] = err]
  /\ IF filePath[r] # NoTemp
     THEN /\ pc' = [pc EXCEPT ![r] = "cleanupCatch"]
          /\ cleanups' = [cleanups EXCEPT ![r] = @ + 1]
          /\ res' = res
     ELSE /\ pc' = [pc EXCEPT ![r] = "done"]
          /\ cleanups' = cleanups
          /\ res' = [res EXCEPT ![r] = ErrorResponse(err)]

\* upload.single("file"): the filter, the size limit, the temporary file
Upload(r) ==
  /\ pc[r] = "upload"
  /\ IF ~req[r].hasFile
     THEN /\ pc' = [pc EXCEPT ![r] = "handler"]
          /\ UNCHANGED <<tmpFiles, res>>
     ELSE IF ~AllowedType(req[r].originalname)
               \/ Length(req[r].content) > FILE_SIZE_LIMIT
     THEN \* next(err): the route handler is skipped; multer stores nothing
          \* for a filtered file and removes the part of an oversized one
          /\ pc' = [pc EXCEPT ![r] = "done"]
          /\ res' = [res EXCEPT ![r] = DefaultErrorResponse]
          /\ UNCHANGED tmpFiles
     ELSE /\ pc' = [pc EXCEPT ![r] = "handler"]
          /\ tmpFiles' = tmpFiles \cup {TempPath(r)}
          /\ UNCHANGED res
  /\ UNCHANGED <<req, filePath, timer, abortedAt, prompt, reply, data, error,
                 mdPath, artifacts, wrote, cleanups, now>>

\* the handler up to `await fs.readFile`
HandlerStart(r) ==
  /\ pc[r] = "handler"
  /\ IF ~req[r].hasFile
     THEN /\ pc' = [pc EXCEPT ![r] = "done"]
          /\ res' = [res EXCEPT ![r] =
                       Response(400, <<"No file uploaded">>, <<>>, FALSE)]
          /\ UNCHANGED filePath
     ELSE /\ pc' = [pc EXCEPT ![r] = "readFile"]
          /\ filePath' = [filePath EXCEPT ![r] = TempPath(r)]
          /\ UNCHANGED res
  /\ UNCHANGED <<req, timer, abortedAt, prompt, reply, data, error, mdPath,
                 tmpFiles, artifacts, wrote, cleanups, now>>

\* content checks without the 10000-character ceiling
ContentCheck_NoCeiling(fileContent) ==
  IF Length(fileContent) > MAX_CONTENT
  THEN NoError
  ELSE IF Length(Trim(fileContent)) = 0
  THEN [name |-> "Error", message |-> <<"File appears to be empty">>]
  ELSE NoError

\* the two content checks: the error to throw, NoError when both pass
ContentCheck(fileContent) ==
  IF Length(Trim(fileContent)) = 0
  THEN [name |-> "Error", message |-> <<"File appears to be empty">>]
  ELSE IF Length(fileContent) > MAX_CONTENT
  THEN [name |-> "Error",
        message |-> <<"File too large for review (max 10KB). Please upload smaller files.">>]
  ELSE NoError

\* readFile resolved: the content checks, the truncation, the timer, fetch
AfterRead(r) ==
  /\ pc[r] = "readFile"
  /\ IF ContentCheck(req[r].content) # NoError
     THEN /\ Throw(r, ContentCheck(req[r].content))
          /\ UNCHANGED <<timer, prompt>>
     ELSE /\ timer' = [timer EXCEPT ![r] = "armed"]
          /\ prompt' = [prompt EXCEPT ![r] =
               Append(@, OptimizedPrompt(req[r].originalname,
                                         TruncatedContent(req[r].content)))]
          /\ pc' = [pc EXCEPT ![r] = "fetch"]
          /\ UNCHANGED <<error, cleanups, res>>
  /\ UNCHANGED <<req, filePath, abortedAt, reply, data, mdPath, tmpFiles,
                 artifacts, wrote, now>>

\* the handler right after `await fetch`: the timer is cleared, then the
\* body is awaited (response.text() or response.json())
AfterFetch(r, status) ==
  /\ timer' = [timer EXCEPT ![r] = "cleared"]
  /\ reply' = [reply EXCEPT ![r] = status]
  /\ pc' = [pc EXCEPT ![r] =
              IF status \in 200..299 THEN "json" ELSE "text"]

\* the backend's status line and headers arrive: fetch resolves
BackendResponds(r) ==
  /\ pc[r] = "fetch"
  /\ \E status \in BackendStatuses : AfterFetch(r, status)
  /\ UNCHANGED <<req, filePath, abortedAt, prompt, data, error, mdPath,
                 tmpFiles, artifacts, wrote, cleanups, res, now>>

\* fetch rejects with a network error (connection refused, reset)
FetchFails(r) ==
  /\ pc[r] = "fetch"
  /\ Throw(r, [name |-> "FetchError",
               message |-> <<"request to OLLAMA_URL/api/generate failed">>])
  /\ UNCHANGED <<req, filePath, timer, abortedAt, prompt, reply, data, mdPath,
                 tmpFiles, artifacts, wrote, now>>

\* the setTimeout callback: controller.abort(); an in-flight fetch rejects
\* with AbortError
TimerFires(r) ==
  /\ timer[r] = "armed"
  /\ timer' = [timer EXCEPT ![r] = "fired"]
  /\ abortedAt' = [abortedAt EXCEPT ![r] = pc[r]]
  /\ IF pc[r] = "fetch"
     THEN Throw(r, [name |-> "AbortError",
                    message |-> <<"The user aborted a request.">>])
     ELSE UNCHANGED <<pc, error, cleanups, res>>
  /\ UNCHANGED <<req, filePath, prompt, reply, data, mdPath, tmpFiles,
                 artifacts, wrote, now>>

\* response.text() resolved on a non-2xx reply
ErrorBodyRead(r) ==
  /\ pc[r] = "text"
  /\ \E errorText \in ErrorBodies :
       Throw(r, [name |-> "Error",
                 message |-> <<"Ollama API error: ", StatusText(reply[r]),
                               " - ", errorText>>])
  /\ UNCHANGED <<req, filePath, timer, abortedAt, prompt, reply, data, mdPath,
                 tmpFiles, artifacts, wrote, now>>

\* response.text() or response.json() rejects (broken stream, not JSON)
BodyFails(r) ==
  /\ pc[r] \in {"text", "json"}
  /\ Throw(r, [name |-> "FetchError",
               message |-> <<"invalid response body">>])
  /\ UNCHANGED <<req, filePath, timer, abortedAt, prompt, reply, data, mdPath,
                 tmpFiles, artifacts, wrote, now>>

\* timestamp, sanitizedFilename, mdPath
MdPath(timestamp, originalname) ==
  [dir |-> "uploads", timestamp |-> timestamp,
   name |-> SanitizedFilename(originalname)]

\* !data.response
NoReview(d) == ~d.hasResponse \/ d.response = ""

\* response.json() resolved: the `response` check, then Date.now() is read
\* (any value from the last one on) and fs.writeFile starts
JsonRead(r) ==
  /\ pc[r] = "json"
  /\ \E d \in JsonBodies :
       /\ data' = [data EXCEPT ![r] = d]
       /\ IF NoReview(d)
          THEN /\ Throw(r, [name |-> "Error",
                      message |-> <<"Invalid response from Ollama API">>])
               /\ UNCHANGED <<mdPath, now>>
          ELSE /\ \E t \in now..MaxClock : now' = t
               /\ mdPath' = [mdPath EXCEPT ![r] =
                               MdPath(now', req[r].originalname)]
               /\ pc' = [pc EXCEPT ![r] = "writeFile"]
               /\ UNCHANGED <<error, cleanups, res>>
  /\ UNCHANGED <<req, filePath, timer, abortedAt, prompt, reply, tmpFiles,
                 artifacts, wrote>>

\* fs.writeFile resolved: the artifact replaces whatever was at mdPath;
\* then cleanupFile is awaited
WriteDone(r) ==
  /\ pc[r] = "writeFile"
  /\ artifacts' = {a \in artifacts : a.path # mdPath[r]}
                    \cup {[path |-> mdPath[r], by |-> r]}
  /\ wrote' = [wrote EXCEPT ![r] = TRUE]
  /\ pc' = [pc EXCEPT ![r] = "cleanupSuccess"]
  /\ cleanups' = [cleanups EXCEPT ![r] = @ + 1]
  /\ UNCHANGED <<req, filePath, timer, abortedAt, prompt, reply, data, error,
                 mdPath, tmpFiles, res, now>>

\* fs.writeFile rejects (name too long, disk full)
WriteFails(r) ==
  /\ pc[r] = "writeFile"
  /\ Throw(r, [name |-> "Error", message |-> <<"ENAMETOOLONG or ENOSPC">>])
  /\ UNCHANGED <<req, filePath, timer, abortedAt, prompt, reply, data, mdPath,
                 tmpFiles, artifacts, wrote, now>>

\* cleanupFile: fs.unlink removes the file; a failure is only logged
CleanupFile(path) == tmpFiles' = tmpFiles \ {path}

\* cleanupFile returned on the success path: res.json(...)
SuccessCleanupDone(r) ==
  /\ pc[r] = "cleanupSuccess"
  /\ CleanupFile(filePath[r])
  /\ res' = [res EXCEPT ![r] = SuccessResponse(r)]
  /\ pc' = [pc EXCEPT ![r] = "done"]
  /\ UNCHANGED <<req, filePath, timer, abortedAt, prompt, reply, data, error,
                 mdPath, artifacts, wrote, cleanups, now>>

\* cleanupFile returned in the catch block: the error is mapped to a status
CatchCleanupDone(r) ==
  /\ pc[r] = "cleanupCatch"
  /\ CleanupFile(filePath[r])
  /\ res' = [res EXCEPT ![r] = ErrorResponse(error[r])]
  /\ pc' = [pc EXCEPT ![r] = "done"]
  /\ UNCHANGED <<req, filePath, timer, abortedAt, prompt, reply, data, error,
                 mdPath, artifacts, wrote, cleanups, now>>

\* steps the Node runtime is sure to take: file-system completions, the
\* handler's own continuations and the deadline timer
Runtime(r) ==
  \/ Upload(r)
  \/ HandlerStart(r)
  \/ AfterRead(r)
  \/ TimerFires(r)
  \/ WriteDone(r)
  \/ SuccessCleanupDone(r)
  \/ CatchCleanupDone(r)

\* steps that depend on the backend or on faults, which may never happen
Environment(r) ==
  \/ BackendResponds(r)
  \/ FetchFails(r)
  \/ ErrorBodyRead(r)
  \/ BodyFails(r)
  \/ JsonRead(r)
  \/ WriteFails(r)

Next ==
  \/ \E r \in Requests : Runtime(r)
  \/ \E r \in Requests : Environment(r)

Spec == Init /\ [][Next]_vars

\* the same, with the runtime's steps weakly fair
FairSpec == Spec /\ \A r \in Requests : WF_vars(Runtime(r))

\* ------------------------------------------------------------------ claims
Sent(r) == res[r] # NoResponse
Succeeded(r) == Sent(r) /\ res[r].status = 200
Called(r) == Len(prompt[r]) >= 1
\* the uploads multer accepts and writes to uploads/
StoredUploads ==
  {u \in Uploads : /\ u.hasFile
                   /\ AllowedType(u.originalname)
                   /\ Length(u.content) <= 2 * 1024 * 1024}
\* the uploads with a disallowed extension
DisallowedUploads ==
  {u \in Uploads : u.hasFile /\ ~AllowedType(u.originalname)}
\* the uploads with an allowed extension whose content is empty or too large
BadContentUploads ==
  {u \in Uploads : /\ u.hasFile
                   /\ AllowedType(u.originalname)
                   /\ \/ Length(Trim(u.content)) = 0
                      \/ Length(u.content) > 10000}
\* the uploads that pass every validation check
ValidUploads ==
  {u \in Uploads : /\ u.hasFile
                   /\ AllowedType(u.originalname)
                   /\ Length(Trim(u.content)) > 0
                   /\ Length(u.content) <= 10000}
\* multer wrote the upload to uploads/ and called the handler
Materialized(r) == pc[r] # "upload" /\ req[r] \in StoredUploads

\* C1: whenever a response has been sent for a request whose upload was
\* written to a temporary file, cleanupFile has been called for that file
\* (on the success path and on every path through the catch block).
C1_CleanupBeforeResponse ==
  \A r \in Requests : (Sent(r) /\ Materialized(r)) => cleanups[r] >= 1

\* a success and a failure after a write error, both answered after cleanup
C1_Witness ==
  \E r1, r2 \in Requests :
    /\ Succeeded(r1) /\ Materialized(r1) /\ cleanups[r1] >= 1
    /\ Sent(r2) /\ Materialized(r2) /\ res[r2].status = 500
    /\ mdPath[r2] # NoPath /\ ~wrote[r2]

C3_DisallowedExtension400 ==
  \A r \in Requests :
    (Sent(r) /\ req[r] \in DisallowedUploads) =>
      (res[r].status = 400 /\ res[r].json /\ res[r].error # <<>>)

\* C4: empty (or whitespace-only) content and content over the size
\* ceiling (10000 characters, 2 MiB at upload) are answered with HTTP 400.
C4_ContentValidation400 ==
  \A r \in Requests :
    (Sent(r) /\ req[r] \in BadContentUploads) => res[r].status = 400

\* C5: a request that fails validation (no file, disallowed extension,
\* empty content, content over 10000 characters) never reaches the backend
\* and never writes an artifact; an artifact is written only after the
\* backend call; at most one backend call is made per request.
C5_NoCallWithoutValidation ==
  \A r \in Requests :
    /\ Len(prompt[r]) <= 1
    /\ (Called(r) \/ wrote[r] \/ mdPath[r] # NoPath)
         => req[r] \in ValidUploads
    /\ (wrote[r] \/ mdPath[r] # NoPath) => Called(r)

\* one request rejected by validation and answered, another that called
\* the backend once
C5_Witness ==
  \E r1, r2 \in Requests :
    /\ Sent(r1) /\ req[r1] \in BadContentUploads /\ ~Called(r1)
    /\ Called(r2) /\ Sent(r2)

\* C6: for content longer than 5000 characters the code in the prompt is
\* the first 5000 characters of the content followed by the truncation
\* marker and a success response says truncated: true; for content of at
\* most 5000 characters the code is the content and truncated is false.
C6_TruncationExact ==
  \A r \in Requests :
    Called(r) =>
      LET content == req[r].content
          code == prompt[r][1].code
      IN /\ prompt[r][1].file = req[r].originalname
         /\ Length(content) > 5000 =>
              /\ Take(code, 5000) = Take(content, 5000)
              /\ Drop(code, 5000) = TruncationMarker
              /\ Succeeded(r) => res[r].truncated
         /\ Length(content) <= 5000 =>
              /\ code = content
              /\ Succeeded(r) => ~res[r].truncated

\* a truncated success next to a success at exactly 5000 characters
C6_Witness ==
  \E r1, r2 \in Requests :
    /\ Succeeded(r1) /\ Length(req[r1].content) > 5000 /\ res[r1].truncated
    /\ Succeeded(r2) /\ Length(req[r2].content) = 5000
    /\ ~res[r2].truncated

\* C7: a non-2xx backend reply is answered with HTTP 500 whose details
\* include the backend status; a 2xx reply without the `response` field is
\* answered with HTTP 500; an artifact is written only after a 2xx reply
\* carrying a non-empty `response`.
C7_BackendErrors500 ==
  \A r \in Requests :
    /\ (Sent(r) /\ reply[r] # 0 /\ reply[r] \notin 200..299) =>
         /\ res[r].status = 500
         /\ \E i \in 1..Len(res[r].details) :
              res[r].details[i] = StatusText(reply[r])
    /\ (Sent(r) /\ reply[r] \in 200..299 /\ data[r] # NoData
          /\ ~data[r].hasResponse) => res[r].status = 500
    /\ (wrote[r] \/ mdPath[r] # NoPath) =>
         (reply[r] \in 200..299 /\ data[r].hasResponse
            /\ data[r].response # "")

\* C8: every request that issued the backend call is eventually answered.
C8_EveryCallAnswered ==
  \A r \in Requests : Called(r) ~> Sent(r)

\* C9: once the response has been sent the deadline timer is no longer
\* pending, and the timeout callback never runs for an answered request.
C9_NoTimerAfterResponse ==
  \A r \in Requests :
    /\ Sent(r) => timer[r] # "armed"
    /\ abortedAt[r] # "done"

\* C10: two distinct successful requests never report the same artifact
\* path.
C10_DistinctArtifacts ==
  \A r1, r2 \in Requests :
    (r1 # r2 /\ Succeeded(r1) /\ Succeeded(r2)) =>
      res[r1].reviewFile # res[r2].reviewFile

====
